---- MODULE Spec2Model ----
(***************************************************************************)
(* Object registry of the runtime (runtime/src/lib.rs): the global CONTEXT *)
(* behind one RwLock, the Dispatchable protocol (handle = address of an    *)
(* Arc allocation) and the NonDispatchable protocol (handle = identity     *)
(* drawn from ID_COUNTER and resolved through a per-category HashMap).     *)
(*                                                                         *)
(* Caller threads invoke the runtime concurrently.  Every function is cut  *)
(* into steps at the points where another thread can observe or interfere: *)
(* lock acquisitions, reference-count updates, registry updates.           *)
(***************************************************************************)
EXTENDS Integers, Sequences, FiniteSets, TLC

\* ------------------------------------------------------------------ bounds
NThreads == 2  \* caller threads
MaxCalls == 4  \* runtime entry points invoked in one behaviour
MaxObj == 7    \* Arc allocations in one behaviour
MaxFenceCalls == 4  \* entry points invoked on the devices of FenceInit
MaxList == 2   \* fences in the list of one wait_for_fences / reset_fences
MaxLiveCalls == 3  \* entry points invoked in one behaviour of LiveSpec
MaxLockCalls == 3  \* entry points invoked in one behaviour of LockSpec

Threads == 1..NThreads
Obj == 1..MaxObj
NoThread == 0
NoObj == 0

\* ------------------------------------------------------- 64-bit identities
\* A u64 is four 16-bit limbs, most significant first, so that fetch_add
\* keeps its width (it wraps modulo 2^64).
Limb == 2 ^ 16

U64(n) == <<0, 0, 0, n>>

\* A fetch_add that leaves the counter where it is.
FetchAddStuck(v) == v

\* AtomicU64::fetch_add(1): the successor modulo 2^64.
FetchAdd(v) ==
    IF v[4] < Limb - 1 THEN [v EXCEPT ![4] = @ + 1]
    ELSE IF v[3] < Limb - 1 THEN [v EXCEPT ![4] = 0, ![3] = @ + 1]
    ELSE IF v[2] < Limb - 1 THEN [v EXCEPT ![4] = 0, ![3] = 0, ![2] = @ + 1]
    ELSE IF v[1] < Limb - 1 THEN <<v[1] + 1, 0, 0, 0>>
    ELSE <<0, 0, 0, 0>>

\* The null handle: VkNonDispatchableHandle(None).
VK_NULL_HANDLE == U64(0)

\* VkNonDispatchableHandle(NonZeroU64::new(v)): None exactly when v is zero,
\* and None is the null handle.
NonZeroU64_new(v) == IF v = U64(0) THEN VK_NULL_HANDLE ELSE v

\* ------------------------------------------------------------- categories
\* The non-dispatchable categories modelled (fields of Context) and the
\* dispatchable kinds with the Vec that get_vec selects for each.
Cats == {"fences", "semaphores"}

Kinds == {"Instance", "PhysicalDevice", "LogicalDevice", "Queue"}

get_vec(kind) ==
    CASE kind = "Instance" -> "instances"
      [] kind = "PhysicalDevice" -> "physical_devices"
      [] kind = "LogicalDevice" -> "logical_devices"
      [] kind = "Queue" -> "queues"

VARIABLES
    CONTEXT,       \* the registry: Vecs of dispatchable objects, maps of the others
    CONTEXT_lock,  \* the RwLock around it: [writer, readers]
    ID_COUNTER,    \* the AtomicU64 identities are drawn from
    heap,          \* Arc allocations: reference count, liveness, the object's fields
    mutex,         \* the Mutex of each Arc<Mutex<T>>: the thread holding it
    pc,            \* each thread's position
    loc,           \* each thread's locals of the call it is in (or was last in)
    held,          \* the Arcs each caller thread holds between calls
    ffi,           \* addresses handed to the caller by set_ffi_handle
    hist,          \* history: handles returned, handles dropped, objects created/destroyed
    calls          \* entry points still allowed in this behaviour

vars == <<CONTEXT, CONTEXT_lock, ID_COUNTER, heap, mutex, pc, loc, held, ffi, hist, calls>>

\* ---------------------------------------------------------------- Context
\* Context::new(): Default::default(), every collection empty.
EmptyMap == [h \in {} |-> NoObj]

Context_new ==
    [instances |-> <<>>, physical_devices |-> <<>>, logical_devices |-> <<>>,
     queues |-> <<>>, fences |-> EmptyMap, semaphores |-> EmptyMap]

\* An insert that stores nothing, a remove that removes nothing.
MapInsertLost(m, h, o) == m

MapRemoveKept(m, h) == m

\* A remove that takes out an entry whatever the key.
MapRemoveAny(m, h) ==
    IF DOMAIN m = {} THEN m
    ELSE LET k == CHOOSE x \in DOMAIN m : TRUE IN [x \in DOMAIN m \ {k} |-> m[x]]

\* HashMap::insert, HashMap::remove, HashMap::get.
MapInsert(m, h, o) == [k \in DOMAIN m \cup {h} |-> IF k = h THEN o ELSE m[k]]

MapRemove(m, h) == [k \in DOMAIN m \ {h} |-> m[k]]

MapHas(m, h) == h \in DOMAIN m

\* A push that stores the entry twice.
VecPushTwice(v, o) == Append(Append(v, o), o)

\* Vec::push, Iterator::position with Arc::ptr_eq.
VecPush(v, o) == Append(v, o)

VecHas(v, o) == \E i \in 1..Len(v) : v[i] = o

VecPosition(v, o) == CHOOSE i \in 1..Len(v) : v[i] = o /\ \A j \in 1..(i - 1) : v[j] # o

\* A remove that leaves the Vec as it is.
VecRemoveKept(v, i) == v

\* Vec::remove(index).
VecRemove(v, i) == [j \in 1..(Len(v) - 1) |-> IF j < i THEN v[j] ELSE v[j + 1]]

\* ------------------------------------------------------------------- RwLock
\* parking_lot::RwLock: write() needs the lock free, read() needs no writer.
Unlocked == [writer |-> NoThread, readers |-> {}]

\* A read() that does not wait for the writer.
RwLockAlwaysReadable(l) == TRUE

RwLockCanRead(l) == l.writer = NoThread

\* A read guard that is never released.
RwLockReadLeaked(l, t) == l

\* The drop of the RwLockReadGuard and of the RwLockWriteGuard.
RwLockReadUnlock(l, t) == [l EXCEPT !.readers = @ \ {t}]

RwLockWriteUnlock(l) == [l EXCEPT !.writer = NoThread]

\* A write() that does not wait for the readers.
RwLockWriteOverReaders(l) == l.writer = NoThread

RwLockCanWrite(l) == l.writer = NoThread /\ l.readers = {}

\* --------------------------------------------------------------------- Arc
\* One allocation: the strong count, whether it is allocated / live / freed,
\* and the fields of the object in it.
Unallocated ==
    [state |-> "unalloc", strong |-> 0, kind |-> "none", handle |-> VK_NULL_HANDLE,
     flags |-> FALSE, signaled |-> FALSE, logical_device |-> NoObj,
     physical_device |-> NoObj, queue |-> NoObj]

Live(hp, o) == hp[o].state = "live"

\* Allocations left within the bound, less those that calls under way will make.
Unused == {o \in Obj : heap[o].state = "unalloc"}

Reserved == {t \in Threads : pc[t] \in {"q_reg_push", "ld_register"}}

CanAlloc(n) == Cardinality(Unused) - Cardinality(Reserved) >= n

HasFresh == CanAlloc(1)

Fresh == CHOOSE o \in Obj : heap[o].state = "unalloc" /\ \A p \in Obj : p < o => heap[p].state # "unalloc"

\* Arc::new(value): a new allocation with strong count 1.
ArcNew(hp, o, value) == [hp EXCEPT ![o] = [value EXCEPT !.state = "live", !.strong = 1]]

\* A second Arc made without counting it (from_raw with no increment).
ArcCloneUncounted(hp, o) == hp

\* Arc::clone / Arc::increment_strong_count.
ArcClone(hp, o) == [hp EXCEPT ![o].strong = @ + 1]

\* The Arcs an object owns in its fields (dropped with it).
OwnedArcs(hp, o) ==
    SelectSeq(<<hp[o].logical_device, hp[o].physical_device, hp[o].queue>>,
              LAMBDA x : x # NoObj)

\* A drop that frees the allocation whatever the count.
ArcDropEager(hp, o) == [hp EXCEPT ![o].strong = 0, ![o].state = "freed"]

RECURSIVE ArcDrop(_, _), ArcDropAll(_, _)

\* drop(Arc) / Arc::decrement_strong_count: the count falls by one; at zero
\* the value is dropped (its own Arcs with it) and the allocation freed.
ArcDrop(hp, o) ==
    IF hp[o].strong > 1
    THEN [hp EXCEPT ![o].strong = @ - 1]
    ELSE ArcDropAll([hp EXCEPT ![o].strong = 0, ![o].state = "freed"], OwnedArcs(hp, o))

ArcDropAll(hp, s) ==
    IF s = <<>> THEN hp ELSE ArcDropAll(ArcDrop(hp, Head(s)), Tail(s))

\* ------------------------------------------------------------------ threads
NoLoc ==
    [op |-> "none", cat |-> "none", h |-> VK_NULL_HANDLE, obj |-> NoObj,
     dev |-> NoObj, flag |-> FALSE, why |-> "none", fences |-> <<>>, i |-> 0,
     ret |-> "none"]

NoHist ==
    [returned |-> <<>>, dropped |-> {}, created |-> {}, destroyed |-> {},
     removals |-> [o \in Obj |-> 0], fence_calls |-> [o \in Obj |-> <<>>],
     queues |-> {}]

Init ==
    /\ CONTEXT = Context_new
    /\ CONTEXT_lock = Unlocked
    /\ ID_COUNTER = U64(1)
    /\ heap = [o \in Obj |-> Unallocated]
    /\ mutex = [o \in Obj |-> NoThread]
    /\ pc = [t \in Threads |-> "idle"]
    /\ loc = [t \in Threads |-> NoLoc]
    /\ held = [t \in Threads |-> [o \in Obj |-> 0]]
    /\ ffi = {}
    /\ hist = NoHist
    /\ calls = MaxCalls

\* A caller thread may start a call when it is in none and calls are left.
CanCall(t) == pc[t] = "idle" /\ calls > 0

\* The handles a caller passes: the null handle, every identity handed out so
\* far, and the identity the counter holds (a handle nobody was given yet).
HandleArgs ==
    {VK_NULL_HANDLE, NonZeroU64_new(ID_COUNTER)}
        \cup {hist.returned[i].h : i \in 1..Len(hist.returned)}

\* --------------------------------------------- NonDispatchable (lib.rs 105-139)
\* The value a constructor builds: the handle field is the null handle.
Semaphore_value == [Unallocated EXCEPT !.kind = "Semaphore"]

\* Semaphore::create: builds the value and calls register_object, whose first
\* statement takes the write lock.
Semaphore_create(t) ==
    /\ CanCall(t)
    /\ HasFresh
    /\ RwLockCanWrite(CONTEXT_lock)
    /\ CONTEXT_lock' = [CONTEXT_lock EXCEPT !.writer = t]
    /\ pc' = [pc EXCEPT ![t] = "nd_reg_insert"]
    /\ loc' = [loc EXCEPT ![t] = [NoLoc EXCEPT !.op = "nd_register_object", !.cat = "semaphores"]]
    /\ calls' = calls - 1
    /\ UNCHANGED <<CONTEXT, ID_COUNTER, heap, mutex, held, ffi, hist>>

\* Fence::create, lines 834-845: flags is the creation flags (of which only
\* VK_FENCE_CREATE_SIGNALED_BIT is kept here), the signaled state is that bit;
\* the Fence owns the Arc<LogicalDevice> passed.
Fence_value(d, signaled_bit) ==
    [Unallocated EXCEPT !.kind = "Fence", !.logical_device = d, !.flags = signaled_bit,
                        !.signaled = signaled_bit]

Fence_create(t, d, signaled_bit) ==
    /\ CanCall(t)
    /\ HasFresh
    /\ held[t][d] > 0
    /\ heap[d].kind = "LogicalDevice"
    /\ RwLockCanWrite(CONTEXT_lock)
    /\ CONTEXT_lock' = [CONTEXT_lock EXCEPT !.writer = t]
    /\ held' = [held EXCEPT ![t][d] = @ - 1]
    /\ pc' = [pc EXCEPT ![t] = "nd_reg_insert"]
    /\ loc' = [loc EXCEPT ![t] = [NoLoc EXCEPT !.op = "nd_register_object", !.cat = "fences",
                                                !.dev = d, !.flag = signaled_bit]]
    /\ calls' = calls - 1
    /\ UNCHANGED <<CONTEXT, ID_COUNTER, heap, mutex, ffi, hist>>

ND_value(t) ==
    IF loc[t].cat = "fences" THEN Fence_value(loc[t].dev, loc[t].flag) ELSE Semaphore_value

\* register_object, lines 122-125: the identity is drawn, the object is put
\* in an Arc and a clone of it is inserted under the identity (an entry
\* already under that key is replaced and dropped).
ND_register_insert(t) ==
    /\ pc[t] = "nd_reg_insert"
    /\ LET handle == NonZeroU64_new(ID_COUNTER)
           cat == loc[t].cat
           o == Fresh
           hp == ArcClone(ArcNew(heap, o, ND_value(t)), o)
           inserted == MapInsert(CONTEXT[cat], handle, o)
       IN /\ ID_COUNTER' = FetchAdd(ID_COUNTER)
          /\ CONTEXT' = [CONTEXT EXCEPT ![cat] = inserted]
          /\ heap' = IF MapHas(CONTEXT[cat], handle)
                     THEN ArcDrop(hp, CONTEXT[cat][handle])
                     ELSE hp
          /\ loc' = [loc EXCEPT ![t].h = handle, ![t].obj = o]
    /\ pc' = [pc EXCEPT ![t] = "nd_reg_lock_object"]
    /\ UNCHANGED <<CONTEXT_lock, mutex, held, ffi, hist, calls>>

\* register_object, line 126, object.lock(): the object's Mutex is taken
\* while the write lock is held.
ND_register_lock_object(t) ==
    /\ pc[t] = "nd_reg_lock_object"
    /\ mutex[loc[t].obj] = NoThread
    /\ mutex' = [mutex EXCEPT ![loc[t].obj] = t]
    /\ pc' = [pc EXCEPT ![t] = "nd_reg_set_handle"]
    /\ UNCHANGED <<CONTEXT, CONTEXT_lock, ID_COUNTER, heap, loc, held, ffi, hist, calls>>

\* register_object, lines 126-128: set_handle under the Mutex, the Mutex guard
\* dropped, then the return: the local Arc and the write guard are dropped
\* and the handle goes to the caller.
ND_register_set_handle(t) ==
    /\ pc[t] = "nd_reg_set_handle"
    /\ LET o == loc[t].obj
       IN /\ heap' = ArcDrop([heap EXCEPT ![o].handle = loc[t].h], o)
          /\ mutex' = [mutex EXCEPT ![o] = NoThread]
    /\ CONTEXT_lock' = RwLockWriteUnlock(CONTEXT_lock)
    /\ hist' = [hist EXCEPT !.returned =
                   Append(@, [cat |-> loc[t].cat, h |-> loc[t].h, obj |-> loc[t].obj,
                              t |-> t,
                              drops |-> Cardinality({d \in hist.dropped : d.obj # NoObj})])]
    /\ pc' = [pc EXCEPT ![t] = "idle"]
    /\ UNCHANGED <<CONTEXT, ID_COUNTER, loc, held, ffi, calls>>

\* from_handle, line 131: the read lock.
ND_from_handle(t, cat, h) ==
    /\ CanCall(t)
    /\ RwLockCanRead(CONTEXT_lock)
    /\ CONTEXT_lock' = [CONTEXT_lock EXCEPT !.readers = @ \cup {t}]
    /\ pc' = [pc EXCEPT ![t] = "nd_from_get"]
    /\ loc' = [loc EXCEPT ![t] = [NoLoc EXCEPT !.op = "nd_from_handle", !.cat = cat, !.h = h]]
    /\ calls' = calls - 1
    /\ UNCHANGED <<CONTEXT, ID_COUNTER, heap, mutex, held, ffi, hist>>

\* from_handle, line 132: get(&handle).unwrap().clone(), then the read guard
\* is dropped.  unwrap() of no entry panics (the guard is dropped unwinding).
ND_from_get(t) ==
    /\ pc[t] = "nd_from_get"
    /\ LET m == CONTEXT[loc[t].cat]
           h == loc[t].h
       IN IF MapHas(m, h)
          THEN /\ heap' = ArcClone(heap, m[h])
               /\ held' = [held EXCEPT ![t][m[h]] = @ + 1]
               /\ loc' = [loc EXCEPT ![t].obj = m[h]]
               /\ pc' = [pc EXCEPT ![t] = "idle"]
          ELSE /\ loc' = [loc EXCEPT ![t].why = "unwrap"]
               /\ pc' = [pc EXCEPT ![t] = "panicked"]
               /\ UNCHANGED <<heap, held>>
    /\ CONTEXT_lock' = RwLockReadUnlock(CONTEXT_lock, t)
    /\ UNCHANGED <<CONTEXT, ID_COUNTER, mutex, ffi, hist, calls>>

\* drop_handle, line 136: the write lock.
ND_drop_handle(t, cat, h) ==
    /\ CanCall(t)
    /\ RwLockCanWrite(CONTEXT_lock)
    /\ CONTEXT_lock' = [CONTEXT_lock EXCEPT !.writer = t]
    /\ pc' = [pc EXCEPT ![t] = "nd_drop_remove"]
    /\ loc' = [loc EXCEPT ![t] = [NoLoc EXCEPT !.op = "nd_drop_handle", !.cat = cat, !.h = h]]
    /\ calls' = calls - 1
    /\ UNCHANGED <<CONTEXT, ID_COUNTER, heap, mutex, held, ffi, hist>>

\* drop_handle, line 137: remove(&handle); the removed Arc, if there was one,
\* is dropped; then the write guard is dropped and the call returns.
ND_drop_remove(t) ==
    /\ pc[t] = "nd_drop_remove"
    /\ LET m == CONTEXT[loc[t].cat]
           h == loc[t].h
           removed == MapRemove(m, h)
       IN /\ CONTEXT' = [CONTEXT EXCEPT ![loc[t].cat] = removed]
          /\ heap' = IF MapHas(m, h) THEN ArcDrop(heap, m[h]) ELSE heap
          /\ hist' = [hist EXCEPT !.dropped =
                         @ \cup {[cat |-> loc[t].cat, h |-> h, t |-> t,
                                  obj |-> IF MapHas(m, h) THEN m[h] ELSE NoObj]}]
    /\ CONTEXT_lock' = RwLockWriteUnlock(CONTEXT_lock)
    /\ pc' = [pc EXCEPT ![t] = "idle"]
    /\ UNCHANGED <<ID_COUNTER, mutex, loc, held, ffi, calls>>

\* The caller drops an Arc it holds (the end of the scope it was resolved in).
Release(t, o) ==
    /\ pc[t] \in {"idle", "panicked"}
    /\ held[t][o] > 0
    /\ heap' = ArcDrop(heap, o)
    /\ held' = [held EXCEPT ![t][o] = @ - 1]
    /\ loc' = IF pc[t] = "idle"
              THEN [loc EXCEPT ![t] = [NoLoc EXCEPT !.op = "release", !.obj = o,
                                                    !.why = IF loc[t].obj = o THEN loc[t].op
                                                            ELSE "none"]]
              ELSE loc
    /\ UNCHANGED <<CONTEXT, CONTEXT_lock, ID_COUNTER, mutex, pc, ffi, hist, calls>>

\* ------------------------------------------------- Dispatchable (lib.rs 46-101)
Instance_value == [Unallocated EXCEPT !.kind = "Instance"]

\* Instance::new, lines 150-154: Arc::new(instance), then register_object,
\* whose first statement takes the write lock.
Instance_new(t) ==
    /\ CanCall(t)
    /\ HasFresh
    /\ RwLockCanWrite(CONTEXT_lock)
    /\ CONTEXT_lock' = [CONTEXT_lock EXCEPT !.writer = t]
    /\ heap' = ArcNew(heap, Fresh, Instance_value)
    /\ pc' = [pc EXCEPT ![t] = "d_reg_push"]
    /\ loc' = [loc EXCEPT ![t] = [NoLoc EXCEPT !.op = "d_register_object", !.obj = Fresh]]
    /\ calls' = calls - 1
    /\ UNCHANGED <<CONTEXT, ID_COUNTER, mutex, held, ffi, hist>>

\* register_object, lines 52-53: a clone of the Arc is pushed on the kind's
\* Vec; the write guard is dropped and the Arc returned to the caller.
D_register_push(t) ==
    /\ pc[t] = "d_reg_push"
    /\ LET o == loc[t].obj
           vec == get_vec(heap[o].kind)
       IN /\ CONTEXT' = [CONTEXT EXCEPT ![vec] = VecPush(@, o)]
          /\ heap' = ArcClone(heap, o)
          /\ held' = [held EXCEPT ![t][o] = @ + 1]
          /\ hist' = [hist EXCEPT !.created = @ \cup {o}]
    /\ CONTEXT_lock' = RwLockWriteUnlock(CONTEXT_lock)
    /\ pc' = [pc EXCEPT ![t] = "idle"]
    /\ UNCHANGED <<ID_COUNTER, mutex, loc, ffi, calls>>

\* PhysicalDevice::physical_device_count(), line 216.
physical_device_count == 1

\* A test that always asks for a new PhysicalDevice.
physical_device_always(devices) == TRUE

\* PhysicalDevice::get, line 203: the test that decides whether one is made.
physical_device_missing(devices) == Len(devices) < physical_device_count

\* PhysicalDevice::get, line 202: the write lock.
PhysicalDevice_get(t) ==
    /\ CanCall(t)
    /\ physical_device_missing(CONTEXT.physical_devices) => HasFresh
    /\ RwLockCanWrite(CONTEXT_lock)
    /\ CONTEXT_lock' = [CONTEXT_lock EXCEPT !.writer = t]
    /\ pc' = [pc EXCEPT ![t] = "pd_get"]
    /\ loc' = [loc EXCEPT ![t] = [NoLoc EXCEPT !.op = "physical_device_get"]]
    /\ calls' = calls - 1
    /\ UNCHANGED <<CONTEXT, ID_COUNTER, heap, mutex, held, ffi, hist>>

PhysicalDevice_value == [Unallocated EXCEPT !.kind = "PhysicalDevice"]

\* PhysicalDevice::get, lines 203-212: when the Vec holds fewer than
\* physical_device_count() entries a PhysicalDevice is made and a clone pushed
\* (the local Arc is dropped at the end of the block); a clone of the last
\* entry is returned and the write guard dropped.
PhysicalDevice_get_cached(t) ==
    /\ pc[t] = "pd_get"
    /\ LET make == physical_device_missing(CONTEXT.physical_devices)
           o == Fresh
           hp == IF make
                 THEN ArcDrop(ArcClone(ArcNew(heap, o, PhysicalDevice_value), o), o)
                 ELSE heap
           vec == IF make THEN VecPush(CONTEXT.physical_devices, o)
                  ELSE CONTEXT.physical_devices
           last == vec[Len(vec)]
       IN /\ CONTEXT' = [CONTEXT EXCEPT !.physical_devices = vec]
          /\ heap' = ArcClone(hp, last)
          /\ held' = [held EXCEPT ![t][last] = @ + 1]
          /\ loc' = [loc EXCEPT ![t].obj = last]
          /\ hist' = [hist EXCEPT !.created = @ \cup {last}]
    /\ CONTEXT_lock' = RwLockWriteUnlock(CONTEXT_lock)
    /\ pc' = [pc EXCEPT ![t] = "idle"]
    /\ UNCHANGED <<ID_COUNTER, mutex, ffi, calls>>

\* Queue::new, lines 802-807, called by LogicalDevice::new, lines 739-741, with
\* a clone of the physical device (LogicalDevice::new keeps a second clone for
\* the device): Arc::new(queue), then register_object takes the write lock.
Queue_value(p) == [Unallocated EXCEPT !.kind = "Queue", !.physical_device = p]

LogicalDevice_new(t, p) ==
    /\ CanCall(t)
    /\ CanAlloc(2)
    /\ held[t][p] > 0
    /\ heap[p].kind = "PhysicalDevice"
    /\ RwLockCanWrite(CONTEXT_lock)
    /\ CONTEXT_lock' = [CONTEXT_lock EXCEPT !.writer = t]
    /\ heap' = ArcNew(ArcClone(ArcClone(heap, p), p), Fresh, Queue_value(p))
    /\ pc' = [pc EXCEPT ![t] = "q_reg_push"]
    /\ loc' = [loc EXCEPT ![t] = [NoLoc EXCEPT !.op = "logical_device_new", !.obj = Fresh,
                                                !.dev = p]]
    /\ calls' = calls - 1
    /\ UNCHANGED <<CONTEXT, ID_COUNTER, mutex, held, ffi, hist>>

\* Queue::new's register_object, lines 52-53: the clone is pushed on queues
\* and the Arc returned to LogicalDevice::new.
Queue_register_push(t) ==
    /\ pc[t] = "q_reg_push"
    /\ CONTEXT' = [CONTEXT EXCEPT !.queues = VecPush(@, loc[t].obj)]
    /\ heap' = ArcClone(heap, loc[t].obj)
    /\ hist' = [hist EXCEPT !.created = @ \cup {loc[t].obj}]
    /\ CONTEXT_lock' = RwLockWriteUnlock(CONTEXT_lock)
    /\ pc' = [pc EXCEPT ![t] = "ld_register"]
    /\ UNCHANGED <<ID_COUNTER, mutex, loc, held, ffi, calls>>

\* LogicalDevice::new, lines 743-749: the device takes the physical device
\* clone and the queue's Arc, goes in an Arc, and register_object takes the
\* write lock.
LogicalDevice_value(p, q) ==
    [Unallocated EXCEPT !.kind = "LogicalDevice", !.physical_device = p, !.queue = q]

LogicalDevice_register(t) ==
    /\ pc[t] = "ld_register"
    /\ RwLockCanWrite(CONTEXT_lock)
    /\ CONTEXT_lock' = [CONTEXT_lock EXCEPT !.writer = t]
    /\ heap' = ArcNew(heap, Fresh, LogicalDevice_value(loc[t].dev, loc[t].obj))
    /\ hist' = [hist EXCEPT !.queues = @ \cup {<<Fresh, loc[t].obj>>}]
    /\ pc' = [pc EXCEPT ![t] = "d_reg_push"]
    /\ loc' = [loc EXCEPT ![t].obj = Fresh]
    /\ UNCHANGED <<CONTEXT, ID_COUNTER, mutex, held, ffi, calls>>

\* A queue() that answers with the first registered Queue.
first_queue(hp, d) == IF CONTEXT.queues = <<>> THEN hp[d].queue ELSE CONTEXT.queues[1]

\* LogicalDevice::queue, line 763: self.queue.
self_queue(hp, d) == hp[d].queue

\* LogicalDevice::queue(&self, queue_family_index, queue_index), lines 760-764:
\* both indices are discarded and a clone of self.queue is returned.
LogicalDevice_queue(t, d) ==
    /\ CanCall(t)
    /\ held[t][d] > 0
    /\ heap[d].kind = "LogicalDevice"
    /\ LET q == self_queue(heap, d)
       IN /\ heap' = ArcClone(heap, q)
          /\ held' = [held EXCEPT ![t][q] = @ + 1]
          /\ loc' = [loc EXCEPT ![t] = [NoLoc EXCEPT !.op = "queue", !.dev = d, !.obj = q]]
    /\ calls' = calls - 1
    /\ UNCHANGED <<CONTEXT, CONTEXT_lock, ID_COUNTER, mutex, pc, ffi, hist>>

Dispatchable(o) == heap[o].kind \in Kinds

\* set_ffi_handle: Arc::into_raw, Arc::decrement_strong_count, and the address
\* is written to the caller's handle.  The caller's Arc is consumed and its
\* count given up: the handle is an address, not an owner.
D_set_ffi_handle(t, o) ==
    /\ pc[t] = "idle"
    /\ held[t][o] > 0
    /\ Dispatchable(o)
    /\ held' = [held EXCEPT ![t][o] = @ - 1]
    /\ heap' = ArcDrop(heap, o)
    /\ ffi' = ffi \cup {o}
    /\ loc' = [loc EXCEPT ![t] = [NoLoc EXCEPT !.op = "d_set_ffi_handle", !.obj = o]]
    /\ UNCHANGED <<CONTEXT, CONTEXT_lock, ID_COUNTER, mutex, pc, hist, calls>>

\* from_handle, lines 79-82: the null handle maps to None and the call is
\* over; a non-null handle is taken for the address of an allocation (the
\* caller passes an address it was given).
D_from_handle(t, o) ==
    /\ CanCall(t)
    /\ o \in ffi \cup {NoObj}
    /\ pc' = [pc EXCEPT ![t] = IF o = NoObj THEN "idle" ELSE "d_from_increment"]
    /\ loc' = [loc EXCEPT ![t] = [NoLoc EXCEPT !.op = "d_from_handle", !.obj = o]]
    /\ calls' = calls - 1
    /\ UNCHANGED <<CONTEXT, CONTEXT_lock, ID_COUNTER, heap, mutex, held, ffi, hist>>

\* from_handle, lines 83-84: Arc::increment_strong_count(ptr) and
\* Arc::from_raw(ptr).  On a freed allocation that is a use after free:
\* undefined behaviour, here either a crash or a dangling Arc.
D_from_increment(t) ==
    /\ pc[t] = "d_from_increment"
    /\ LET o == loc[t].obj
       IN IF Live(heap, o)
          THEN /\ heap' = ArcClone(heap, o)
               /\ held' = [held EXCEPT ![t][o] = @ + 1]
               /\ pc' = [pc EXCEPT ![t] = "idle"]
               /\ loc' = loc
          ELSE /\ \E outcome \in {"crash", "dangling"} :
                      loc' = [loc EXCEPT ![t].why = outcome]
               /\ pc' = [pc EXCEPT ![t] = "undefined"]
               /\ UNCHANGED <<heap, held>>
    /\ UNCHANGED <<CONTEXT, CONTEXT_lock, ID_COUNTER, mutex, ffi, hist, calls>>

\* drop_handle(self: Arc<Self>), line 97: the caller's Arc moves into the
\* call; unregister_object, line 57, takes the write lock.
D_drop_handle(t, o) ==
    /\ CanCall(t)
    /\ held[t][o] > 0
    /\ Dispatchable(o)
    /\ RwLockCanWrite(CONTEXT_lock)
    /\ CONTEXT_lock' = [CONTEXT_lock EXCEPT !.writer = t]
    /\ held' = [held EXCEPT ![t][o] = @ - 1]
    /\ hist' = [hist EXCEPT !.destroyed = @ \cup {o}]
    /\ pc' = [pc EXCEPT ![t] = "d_unregister"]
    /\ loc' = [loc EXCEPT ![t] = [NoLoc EXCEPT !.op = "d_drop_handle", !.obj = o]]
    /\ calls' = calls - 1
    /\ UNCHANGED <<CONTEXT, ID_COUNTER, heap, mutex, ffi>>

\* unregister_object, lines 58-64: position(ptr_eq).unwrap() panics when the
\* object is in no entry; otherwise the entry is removed (and that Arc
\* dropped).  The write guard is dropped either way.
D_unregister(t) ==
    /\ pc[t] = "d_unregister"
    /\ LET o == loc[t].obj
           vec == get_vec(heap[o].kind)
       IN IF VecHas(CONTEXT[vec], o)
          THEN /\ CONTEXT' = [CONTEXT EXCEPT ![vec] = VecRemove(@, VecPosition(@, o))]
               /\ heap' = ArcDrop(heap, o)
               /\ hist' = [hist EXCEPT !.removals[o] = @ + 1]
               /\ pc' = [pc EXCEPT ![t] = "d_drop_assert"]
               /\ loc' = loc
          ELSE /\ loc' = [loc EXCEPT ![t].why = "unwrap"]
               /\ pc' = [pc EXCEPT ![t] = "d_drop_unwind"]
               /\ UNCHANGED <<CONTEXT, heap, hist>>
    /\ CONTEXT_lock' = RwLockWriteUnlock(CONTEXT_lock)
    /\ UNCHANGED <<ID_COUNTER, mutex, held, ffi, calls>>

\* No assertion at all.
AssertionSkipped(hp, o) == TRUE

\* drop_handle, line 98: assert_eq!(Arc::strong_count(&self), 1).
FinalReferenceAssertion(hp, o) == hp[o].strong = 1

D_drop_assert(t) ==
    /\ pc[t] = "d_drop_assert"
    /\ IF FinalReferenceAssertion(heap, loc[t].obj)
       THEN /\ pc' = [pc EXCEPT ![t] = "d_drop_self"]
            /\ loc' = loc
       ELSE /\ pc' = [pc EXCEPT ![t] = "d_drop_unwind"]
            /\ loc' = [loc EXCEPT ![t].why = "assert"]
    /\ UNCHANGED <<CONTEXT, CONTEXT_lock, ID_COUNTER, heap, mutex, held, ffi, hist, calls>>

\* drop_handle, line 99: drop(self), and the call returns.
D_drop_self(t) ==
    /\ pc[t] = "d_drop_self"
    /\ heap' = ArcDrop(heap, loc[t].obj)
    /\ pc' = [pc EXCEPT ![t] = "idle"]
    /\ UNCHANGED <<CONTEXT, CONTEXT_lock, ID_COUNTER, mutex, loc, held, ffi, hist, calls>>

\* A panic in drop_handle unwinds through it: self is dropped on the way.
D_drop_unwind(t) ==
    /\ pc[t] = "d_drop_unwind"
    /\ heap' = ArcDrop(heap, loc[t].obj)
    /\ pc' = [pc EXCEPT ![t] = "panicked"]
    /\ UNCHANGED <<CONTEXT, CONTEXT_lock, ID_COUNTER, mutex, loc, held, ffi, hist, calls>>

\* ------------------------------------------------ Fence (lib.rs 766-782, 848-856)
\* A reset that leaves the state as it is.
reset_kept(self) == self

\* A signal that also clears the handle field.
signal_unhandled(self) == [self EXCEPT !.signaled = TRUE, !.handle = VK_NULL_HANDLE]

\* Fence::signal and Fence::reset, lines 848-856.
signal(self) == [self EXCEPT !.signaled = TRUE]

reset(self) == [self EXCEPT !.signaled = FALSE]

IsFence(o) == heap[o].kind = "Fence"

\* The Mutex around a fence (parking_lot::Mutex, not reentrant): lock() waits
\* until no thread holds it; the drop of the guard frees it.
MutexCanLock(m, o) == m[o] = NoThread

MutexLock(m, o, t) == [m EXCEPT ![o] = t]

\* A guard that outlives the iteration it was taken in.
MutexGuardKept(m, o) == m

MutexUnlock(m, o) == [m EXCEPT ![o] = NoThread]

\* fence.lock().signal() by a caller holding the Arc<Mutex<Fence>>: the Mutex
\* is taken, the method runs, the guard is dropped.
Fence_signal(t, f) ==
    /\ CanCall(t)
    /\ held[t][f] > 0
    /\ IsFence(f)
    /\ mutex[f] = NoThread
    /\ heap' = [heap EXCEPT ![f] = signal(@)]
    /\ hist' = [hist EXCEPT !.fence_calls[f] = Append(@, "signal")]
    /\ loc' = [loc EXCEPT ![t] = [NoLoc EXCEPT !.op = "signal", !.obj = f]]
    /\ calls' = calls - 1
    /\ UNCHANGED <<CONTEXT, CONTEXT_lock, ID_COUNTER, mutex, pc, held, ffi>>

\* fence.lock().reset() by a caller.
Fence_reset(t, f) ==
    /\ CanCall(t)
    /\ held[t][f] > 0
    /\ IsFence(f)
    /\ mutex[f] = NoThread
    /\ heap' = [heap EXCEPT ![f] = reset(@)]
    /\ hist' = [hist EXCEPT !.fence_calls[f] = Append(@, "reset")]
    /\ loc' = [loc EXCEPT ![t] = [NoLoc EXCEPT !.op = "reset", !.obj = f]]
    /\ calls' = calls - 1
    /\ UNCHANGED <<CONTEXT, CONTEXT_lock, ID_COUNTER, mutex, pc, held, ffi>>

\* A wait that signals the fence it looks at.
wait_fence_signals(self) == signal(self)

\* wait_for_fences, lines 770-773, on one locked fence: its logical_device is
\* read and compared; no field is written.
wait_fence(self) == self

\* The Vec<Arc<Mutex<Fence>>> a caller can pass: fences it holds Arcs of, each
\* as often as it holds one.
Count(fs, o) == Cardinality({j \in DOMAIN fs : fs[j] = o})

FenceLists(t) ==
    LET mine == {o \in Obj : held[t][o] > 0 /\ IsFence(o)}
    IN {fs \in UNION {[1..n -> mine] : n \in 0..MaxList} :
            \A o \in mine : Count(fs, o) <= held[t][o]}

\* The Arcs of the list move into the call.
Moved(t, fs) == [held EXCEPT ![t] = [o \in Obj |-> @[o] - Count(fs, o)]]

\* wait_for_fences(&self, fences, wait_all, timeout), lines 766-768: the list
\* moves in; wait_all and timeout are discarded.
wait_for_fences(t, d, fs) ==
    /\ CanCall(t)
    /\ held[t][d] > 0
    /\ heap[d].kind = "LogicalDevice"
    /\ fs \in FenceLists(t)
    /\ held' = Moved(t, fs)
    /\ pc' = [pc EXCEPT ![t] = "wait_loop"]
    /\ loc' = [loc EXCEPT ![t] = [NoLoc EXCEPT !.op = "wait_for_fences", !.dev = d,
                                                !.fences = fs, !.i = 1]]
    /\ calls' = calls - 1
    /\ UNCHANGED <<CONTEXT, CONTEXT_lock, ID_COUNTER, heap, mutex, ffi, hist>>

\* wait_for_fences, line 770, fence.lock(): the call waits until the fence's
\* Mutex is free and takes it.
wait_for_fences_lock(t) ==
    /\ pc[t] = "wait_loop"
    /\ loc[t].i <= Len(loc[t].fences)
    /\ LET fence == loc[t].fences[loc[t].i]
       IN /\ MutexCanLock(mutex, fence)
          /\ mutex' = MutexLock(mutex, fence, t)
    /\ pc' = [pc EXCEPT ![t] = "wait_locked"]
    /\ UNCHANGED <<CONTEXT, CONTEXT_lock, ID_COUNTER, heap, loc, held, ffi, hist, calls>>

\* wait_for_fences, lines 770-774, the rest of the iteration: the fence's
\* device is compared with self and the guard, a temporary of the condition,
\* is dropped; a fence of another device is skipped, and for a fence of this
\* device nothing is done either (line 773 is a comment).  The fence's Arc is
\* dropped at the end of the iteration.
wait_for_fences_next(t) ==
    /\ pc[t] = "wait_locked"
    /\ LET fence == loc[t].fences[loc[t].i]
       IN /\ heap' = ArcDrop([heap EXCEPT ![fence] = wait_fence(@)], fence)
          /\ mutex' = MutexUnlock(mutex, fence)
    /\ loc' = [loc EXCEPT ![t].i = @ + 1]
    /\ pc' = [pc EXCEPT ![t] = "wait_loop"]
    /\ UNCHANGED <<CONTEXT, CONTEXT_lock, ID_COUNTER, held, ffi, hist, calls>>

\* wait_for_fences returns (): the one outcome it has.
wait_for_fences_return(t) ==
    /\ pc[t] = "wait_loop"
    /\ loc[t].i > Len(loc[t].fences)
    /\ pc' = [pc EXCEPT ![t] = "idle"]
    /\ loc' = [loc EXCEPT ![t].ret = "unit"]
    /\ UNCHANGED <<CONTEXT, CONTEXT_lock, ID_COUNTER, heap, mutex, held, ffi, hist, calls>>

\* reset_fences(&self, fences), line 777: the list moves in.
reset_fences(t, d, fs) ==
    /\ CanCall(t)
    /\ held[t][d] > 0
    /\ heap[d].kind = "LogicalDevice"
    /\ fs \in FenceLists(t)
    /\ held' = Moved(t, fs)
    /\ pc' = [pc EXCEPT ![t] = "reset_loop"]
    /\ loc' = [loc EXCEPT ![t] = [NoLoc EXCEPT !.op = "reset_fences", !.dev = d,
                                                !.fences = fs, !.i = 1]]
    /\ calls' = calls - 1
    /\ UNCHANGED <<CONTEXT, CONTEXT_lock, ID_COUNTER, heap, mutex, ffi, hist>>

\* reset_fences, line 780, fence.lock(): the call waits until the fence's
\* Mutex is free and takes it.
reset_fences_lock(t) ==
    /\ pc[t] = "reset_loop"
    /\ loc[t].i <= Len(loc[t].fences)
    /\ LET fence == loc[t].fences[loc[t].i]
       IN /\ MutexCanLock(mutex, fence)
          /\ mutex' = MutexLock(mutex, fence, t)
    /\ pc' = [pc EXCEPT ![t] = "reset_locked"]
    /\ UNCHANGED <<CONTEXT, CONTEXT_lock, ID_COUNTER, heap, loc, held, ffi, hist, calls>>

\* reset_fences, lines 778-781, the rest of the iteration: reset() on the
\* locked fence whatever its device (the check of line 779 is a comment); the
\* guard, a temporary of the statement, is dropped at its end, and the
\* fence's Arc at the end of the iteration.
reset_fences_next(t) ==
    /\ pc[t] = "reset_locked"
    /\ LET fence == loc[t].fences[loc[t].i]
       IN /\ heap' = ArcDrop([heap EXCEPT ![fence] = reset(@)], fence)
          /\ mutex' = MutexUnlock(mutex, fence)
          /\ hist' = [hist EXCEPT !.fence_calls[fence] = Append(@, "reset")]
    /\ loc' = [loc EXCEPT ![t].i = @ + 1]
    /\ pc' = [pc EXCEPT ![t] = "reset_loop"]
    /\ UNCHANGED <<CONTEXT, CONTEXT_lock, ID_COUNTER, held, ffi, calls>>

reset_fences_return(t) ==
    /\ pc[t] = "reset_loop"
    /\ loc[t].i > Len(loc[t].fences)
    /\ pc' = [pc EXCEPT ![t] = "idle"]
    /\ loc' = [loc EXCEPT ![t].ret = "unit"]
    /\ UNCHANGED <<CONTEXT, CONTEXT_lock, ID_COUNTER, heap, mutex, held, ffi, hist, calls>>

Next ==
    \E t \in Threads :
        \/ Semaphore_create(t)
        \/ ND_register_insert(t)
        \/ ND_register_lock_object(t)
        \/ ND_register_set_handle(t)
        \/ \E cat \in Cats, h \in HandleArgs : ND_from_handle(t, cat, h)
        \/ ND_from_get(t)
        \/ \E cat \in Cats, h \in HandleArgs : ND_drop_handle(t, cat, h)
        \/ ND_drop_remove(t)
        \/ \E o \in Obj : Release(t, o)
        \/ \E d \in Obj, b \in BOOLEAN : Fence_create(t, d, b)
        \/ Instance_new(t)
        \/ PhysicalDevice_get(t)
        \/ PhysicalDevice_get_cached(t)
        \/ \E p \in Obj : LogicalDevice_new(t, p)
        \/ Queue_register_push(t)
        \/ LogicalDevice_register(t)
        \/ \E d \in Obj : LogicalDevice_queue(t, d)
        \/ D_register_push(t)
        \/ \E o \in Obj : D_set_ffi_handle(t, o)
        \/ \E o \in Obj \cup {NoObj} : D_from_handle(t, o)
        \/ D_from_increment(t)
        \/ \E o \in Obj : D_drop_handle(t, o)
        \/ D_unregister(t)
        \/ D_drop_assert(t)
        \/ D_drop_self(t)
        \/ D_drop_unwind(t)

Spec == Init /\ [][Next]_vars

\* ------------------------------------------------- the fences of two devices
\* The state after PhysicalDevice::get, two LogicalDevice::new, set_ffi_handle
\* of both devices and a from_handle of each device by every thread: objects
\* 1..5 are the physical device, the queue and device of the first
\* LogicalDevice::new, and the queue and device of the second.
FenceDevices == {3, 5}

TwoDevices ==
    /\ CONTEXT = [Context_new EXCEPT !.physical_devices = <<1>>, !.queues = <<2, 4>>,
                                     !.logical_devices = <<3, 5>>]
    /\ CONTEXT_lock = Unlocked
    /\ ID_COUNTER = U64(1)
    /\ heap = [o \in Obj |->
                 CASE o = 1 -> [PhysicalDevice_value EXCEPT !.state = "live", !.strong = 5]
                   [] o \in {2, 4} -> [Queue_value(1) EXCEPT !.state = "live", !.strong = 2]
                   [] o \in {3, 5} -> [LogicalDevice_value(1, o - 1) EXCEPT
                                          !.state = "live", !.strong = 1 + NThreads]
                   [] OTHER -> Unallocated]
    /\ mutex = [o \in Obj |-> NoThread]
    /\ pc = [t \in Threads |-> "idle"]
    /\ loc = [t \in Threads |-> NoLoc]
    /\ held = [t \in Threads |-> [o \in Obj |-> IF o \in FenceDevices THEN 1 ELSE 0]]
    /\ ffi = FenceDevices
    /\ hist = [NoHist EXCEPT !.created = 1..5, !.queues = {<<3, 2>>, <<5, 4>>}]

FenceInit == TwoDevices /\ calls = MaxFenceCalls

FenceNext ==
    \E t \in Threads :
        \/ \E d \in Obj, b \in BOOLEAN : Fence_create(t, d, b)
        \/ ND_register_insert(t)
        \/ ND_register_lock_object(t)
        \/ ND_register_set_handle(t)
        \/ \E h \in HandleArgs : ND_from_handle(t, "fences", h)
        \/ ND_from_get(t)
        \/ \E f \in Obj : Fence_signal(t, f)
        \/ \E f \in Obj : Fence_reset(t, f)
        \/ \E d \in Obj : \E fs \in FenceLists(t) : wait_for_fences(t, d, fs)
        \/ wait_for_fences_lock(t)
        \/ wait_for_fences_next(t)
        \/ wait_for_fences_return(t)
        \/ \E d \in Obj : \E fs \in FenceLists(t) : reset_fences(t, d, fs)
        \/ reset_fences_lock(t)
        \/ reset_fences_next(t)
        \/ reset_fences_return(t)
        \/ \E o \in Obj : Release(t, o)

FenceSpec == FenceInit /\ [][FenceNext]_vars

\* ------------------------------------------------------- fair scheduling
\* The steps that carry on a call thread t has started.
Continue(t) ==
    \/ ND_register_insert(t)
    \/ ND_register_lock_object(t)
    \/ ND_register_set_handle(t)
    \/ ND_from_get(t)
    \/ ND_drop_remove(t)
    \/ PhysicalDevice_get_cached(t)
    \/ Queue_register_push(t)
    \/ LogicalDevice_register(t)
    \/ D_register_push(t)
    \/ D_unregister(t)
    \/ D_drop_assert(t)
    \/ D_drop_self(t)
    \/ D_drop_unwind(t)
    \/ wait_for_fences_lock(t)
    \/ wait_for_fences_next(t)
    \/ wait_for_fences_return(t)
    \/ reset_fences_lock(t)
    \/ reset_fences_next(t)
    \/ reset_fences_return(t)

\* The calls that take a lock, issued on the two devices: creates, resolves,
\* destroys, PhysicalDevice::get, and the fence operations.  The callers keep
\* the device references they start with, unless they pass them to a call.
LiveInit == TwoDevices /\ calls = MaxLiveCalls

LiveNext ==
    \E t \in Threads :
        \/ Semaphore_create(t)
        \/ \E d \in Obj, b \in BOOLEAN : Fence_create(t, d, b)
        \/ Instance_new(t)
        \/ PhysicalDevice_get(t)
        \/ \E p \in Obj : LogicalDevice_new(t, p)
        \/ \E cat \in Cats, h \in HandleArgs : ND_from_handle(t, cat, h)
        \/ \E cat \in Cats, h \in HandleArgs : ND_drop_handle(t, cat, h)
        \/ \E o \in Obj : D_drop_handle(t, o)
        \/ \E f \in Obj : Fence_signal(t, f)
        \/ \E f \in Obj : Fence_reset(t, f)
        \/ \E d \in Obj : \E fs \in FenceLists(t) : wait_for_fences(t, d, fs)
        \/ \E d \in Obj : \E fs \in FenceLists(t) : reset_fences(t, d, fs)
        \/ \E o \in Obj \ FenceDevices : Release(t, o)
        \/ Continue(t)

\* A thread inside a call is scheduled again and again, and a lock that stays
\* free is granted to a thread waiting for it.
LiveSpec == LiveInit /\ [][LiveNext]_vars /\ \A t \in Threads : WF_vars(Continue(t))

\* ------------------------------------------------------ fences shared by threads
\* The state after two Fence::create calls on top of TwoDevices, fence 6 on
\* device 3 and fence 7 (created signaled) on device 5, after which every
\* thread has resolved each fence MaxList times with from_handle and taken
\* the device Arcs it gave to create again with from_handle.
LockFences == {6, 7}

TwoFences ==
    /\ CONTEXT = [Context_new EXCEPT
                     !.physical_devices = <<1>>, !.queues = <<2, 4>>,
                     !.logical_devices = <<3, 5>>,
                     !.fences = MapInsert(MapInsert(EmptyMap, U64(1), 6), U64(2), 7)]
    /\ CONTEXT_lock = Unlocked
    /\ ID_COUNTER = U64(3)
    /\ heap = [o \in Obj |->
                 CASE o = 1 -> [PhysicalDevice_value EXCEPT !.state = "live", !.strong = 5]
                   [] o \in {2, 4} -> [Queue_value(1) EXCEPT !.state = "live", !.strong = 2]
                   [] o \in {3, 5} -> [LogicalDevice_value(1, o - 1) EXCEPT
                                          !.state = "live", !.strong = 2 + NThreads]
                   [] o = 6 -> [Fence_value(3, FALSE) EXCEPT
                                   !.state = "live", !.strong = 1 + MaxList * NThreads,
                                   !.handle = U64(1)]
                   [] o = 7 -> [Fence_value(5, TRUE) EXCEPT
                                   !.state = "live", !.strong = 1 + MaxList * NThreads,
                                   !.handle = U64(2)]
                   [] OTHER -> Unallocated]
    /\ mutex = [o \in Obj |-> NoThread]
    /\ pc = [t \in Threads |-> "idle"]
    /\ loc = [t \in Threads |-> NoLoc]
    /\ held = [t \in Threads |-> [o \in Obj |->
                 CASE o \in FenceDevices -> 1
                   [] o \in LockFences -> MaxList
                   [] OTHER -> 0]]
    /\ ffi = FenceDevices
    /\ hist = [NoHist EXCEPT
                  !.created = 1..5, !.queues = {<<3, 2>>, <<5, 4>>},
                  !.returned = <<[cat |-> "fences", h |-> U64(1), obj |-> 6, t |-> 1, drops |-> 0],
                                 [cat |-> "fences", h |-> U64(2), obj |-> 7, t |-> 1, drops |-> 0]>>]

LockInit == TwoFences /\ calls = MaxLockCalls

\* The steps that carry on a wait_for_fences or reset_fences of thread t.
LoopContinue(t) ==
    \/ wait_for_fences_lock(t)
    \/ wait_for_fences_next(t)
    \/ wait_for_fences_return(t)
    \/ reset_fences_lock(t)
    \/ reset_fences_next(t)
    \/ reset_fences_return(t)

\* wait_for_fences and reset_fences on lists of the shared fences, next to
\* callers that lock a fence to signal or reset it.
LockNext ==
    \E t \in Threads :
        \/ \E d \in Obj : \E fs \in FenceLists(t) : wait_for_fences(t, d, fs)
        \/ \E d \in Obj : \E fs \in FenceLists(t) : reset_fences(t, d, fs)
        \/ \E f \in Obj : Fence_signal(t, f)
        \/ \E f \in Obj : Fence_reset(t, f)
        \/ wait_for_fences_lock(t)
        \/ wait_for_fences_next(t)
        \/ wait_for_fences_return(t)
        \/ reset_fences_lock(t)
        \/ reset_fences_next(t)
        \/ reset_fences_return(t)

\* A thread inside a loop is scheduled again and again, and a Mutex that
\* stays free is granted to the thread waiting for it.
LockSpec == LockInit /\ [][LockNext]_vars /\ \A t \in Threads : WF_vars(LoopContinue(t))

\* ------------------------------------------------- the counter at its maximum
\* u64::MAX, the value ID_COUNTER holds after 2^64 - 2 registrations.
U64_MAX == <<Limb - 1, Limb - 1, Limb - 1, Limb - 1>>

\* The state in which ID_COUNTER has reached u64::MAX and every object
\* registered on the way has been dropped again.
WrapInit ==
    /\ CONTEXT = Context_new
    /\ CONTEXT_lock = Unlocked
    /\ ID_COUNTER = U64_MAX
    /\ heap = [o \in Obj |-> Unallocated]
    /\ mutex = [o \in Obj |-> NoThread]
    /\ pc = [t \in Threads |-> "idle"]
    /\ loc = [t \in Threads |-> NoLoc]
    /\ held = [t \in Threads |-> [o \in Obj |-> 0]]
    /\ ffi = {}
    /\ hist = NoHist
    /\ calls = MaxCalls

WrapNext ==
    \E t \in Threads :
        \/ Semaphore_create(t)
        \/ ND_register_insert(t)
        \/ ND_register_lock_object(t)
        \/ ND_register_set_handle(t)
        \/ \E h \in HandleArgs : ND_from_handle(t, "semaphores", h)
        \/ ND_from_get(t)
        \/ \E h \in HandleArgs : ND_drop_handle(t, "semaphores", h)
        \/ ND_drop_remove(t)
        \/ \E o \in Obj : Release(t, o)

WrapSpec == WrapInit /\ [][WrapNext]_vars

\* ------------------------------------------------------------ vocabulary
\* The dispatchable Vecs and the non-dispatchable maps of the registry.
Vecs == {get_vec(k) : k \in Kinds}

InVec(o) == \E v \in Vecs : VecHas(CONTEXT[v], o)

InMap(o) == \E c \in Cats : \E k \in DOMAIN CONTEXT[c] : CONTEXT[c][k] = o

NonDispatchableObj(o) == heap[o].kind \in {"Fence", "Semaphore"}

\* drop_handle(cat, h) has returned, having removed the entry of h.
Dropped(cat, h) == \E d \in hist.dropped : d.cat = cat /\ d.h = h /\ d.obj # NoObj

\* Thread t's last call was from_handle and it returned an object to t.
Resolved(t) == pc[t] = "idle" /\ loc[t].op = "nd_from_handle"

RECURSIVE Sum(_, _)

Sum(f, S) == IF S = {} THEN 0 ELSE LET x == CHOOSE y \in S : TRUE IN f[x] + Sum(f, S \ {x})

One(b) == IF b THEN 1 ELSE 0

\* The owners of allocation o: registry entries, Arcs held by callers, Arcs in
\* the locals of calls under way, and Arcs in the fields of live objects.
Owners(o) ==
    Sum([v \in Vecs |-> Cardinality({i \in 1..Len(CONTEXT[v]) : CONTEXT[v][i] = o})], Vecs)
    + Sum([c \in Cats |-> Cardinality({k \in DOMAIN CONTEXT[c] : CONTEXT[c][k] = o})], Cats)
    + Sum([t \in Threads |-> held[t][o]], Threads)
    + Sum([t \in Threads |->
            One(loc[t].obj = o /\ pc[t] \in {"nd_reg_lock_object", "nd_reg_set_handle",
                    "d_reg_push", "q_reg_push", "ld_register", "d_unregister",
                    "d_drop_assert", "d_drop_self", "d_drop_unwind"})
            + One(loc[t].dev = o /\ pc[t] \in {"nd_reg_insert", "q_reg_push", "ld_register"})
            + (IF pc[t] \in {"wait_loop", "wait_locked", "reset_loop", "reset_locked"}
               THEN Cardinality({j \in loc[t].i..Len(loc[t].fences) : loc[t].fences[j] = o})
               ELSE 0)],
          Threads)
    + Sum([x \in Obj |-> IF Live(heap, x)
                         THEN One(heap[x].logical_device = o)
                              + One(heap[x].physical_device = o) + One(heap[x].queue = o)
                         ELSE 0], Obj)

\* -------------------------------------------------------------- properties

\* C1: all handles returned by register_object are pairwise distinct, whatever
\* the interleaving and whatever drop_handle calls came in between: no handle
\* value is returned a second time.
C1_HandlesPairwiseDistinct ==
    \A i, j \in 1..Len(hist.returned) :
        i # j => hist.returned[i].h # hist.returned[j].h

\* Two threads have registered objects, the later one after an entry was removed.
C1_Witness ==
    \E i, j \in 1..Len(hist.returned) :
        /\ i < j
        /\ hist.returned[i].t # hist.returned[j].t
        /\ hist.returned[j].drops > 0
        /\ Dropped(hist.returned[i].cat, hist.returned[i].h)

\* C2: once drop_handle(h) has returned, having removed the entry of h, no
\* later from_handle(h) of that category returns an object, and none returns
\* the removed object.
C2_NoResolveAfterDrop ==
    [][\A t \in Threads :
          (pc[t] = "nd_from_get" /\ pc'[t] = "idle") =>
              /\ ~Dropped(loc[t].cat, loc[t].h)
              /\ \A d \in hist.dropped : d.obj # loc'[t].obj]_vars

\* A resolve of a dropped handle has failed, another object having been
\* registered after the drop.
C2_Witness ==
    \E t \in Threads :
        /\ pc[t] = "panicked"
        /\ loc[t].op = "nd_from_handle"
        /\ Dropped(loc[t].cat, loc[t].h)
        /\ \E i \in 1..Len(hist.returned) : hist.returned[i].drops > 0

\* C3: from_handle with a handle that has no entry reports "not found" as a
\* returned outcome; it does not panic.
C3_NotFoundIsReturned ==
    \A t \in Threads : ~(loc[t].op = "nd_from_handle" /\ pc[t] = "panicked")

\* C4: drop_handle(h) never completes by removing the entry of h while another
\* thread holds a reference it got from from_handle(h).
C4_DropWaitsForReferences ==
    \A t \in Threads, o \in Obj :
        (held[t][o] > 0 /\ NonDispatchableObj(o)) =>
            ~\E d \in hist.dropped : d.obj = o /\ d.t # t

\* C5: an object a caller holds a reference to is not freed, whether or not
\* the registry still has an entry for it.
C5_HeldReferenceIsLive ==
    \A t \in Threads, o \in Obj : held[t][o] > 0 => Live(heap, o)

\* A reference resolved before the unregistration is held after it.
C5_Witness ==
    \E t \in Threads, o \in Obj :
        /\ held[t][o] > 0
        /\ Live(heap, o)
        /\ ~InMap(o)
        /\ \E d \in hist.dropped : d.obj = o /\ d.t # t

\* C6: drop_handle goes on to drop(self) only when the strong count is exactly
\* 1 at the assertion, the entry being removed; with any other count the
\* assertion fails, the call panics, and the object is not freed by that step;
\* and whenever a drop_handle frees the object, the Arc of that call was its
\* only owner.
C6_FinalReferenceAssertion ==
    [][\A t \in Threads :
          /\ (pc[t] = "d_drop_assert" /\ pc'[t] # pc[t]) =>
                 IF heap[loc[t].obj].strong = 1
                 THEN pc'[t] = "d_drop_self" /\ ~InVec(loc[t].obj)
                 ELSE pc'[t] = "d_drop_unwind" /\ Live(heap', loc[t].obj)
          /\ (pc[t] \in {"d_drop_self", "d_drop_unwind"} /\ pc'[t] # pc[t]
                /\ Live(heap, loc[t].obj) /\ ~Live(heap', loc[t].obj)) =>
                 Owners(loc[t].obj) = 1]_vars

\* A drop_handle has panicked on the assertion and the object is live.
C6_Witness ==
    \E t \in Threads :
        /\ pc[t] = "panicked"
        /\ loc[t].op = "d_drop_handle"
        /\ loc[t].why = "assert"
        /\ Live(heap, loc[t].obj)

\* C7: an object is not freed while a from_handle (Decode) of its handle is in
\* progress.
C7_NoFreeWhileDecoding ==
    [][\A t \in Threads :
          (pc[t] = "d_from_increment" /\ Live(heap, loc[t].obj)) =>
              Live(heap', loc[t].obj)]_vars

\* The strong count of every live allocation is the number of its owners.
C8_CountIsOwners == \A o \in Obj : Live(heap, o) => heap[o].strong = Owners(o)

\* C8: a resolve leaves every collection of the registry and every object as
\* they were and adds one to the object's count; dropping the reference while
\* the object is registered takes that one off again; and the count of a live
\* object is at every moment the number of its owners.
C8_RoundTrip ==
    /\ []C8_CountIsOwners
    /\ [][\A t \in Threads :
             /\ ((pc[t] = "nd_from_get" \/ pc[t] = "d_from_increment") /\ pc'[t] = "idle") =>
                    /\ CONTEXT' = CONTEXT
                    /\ heap' = [heap EXCEPT ![loc'[t].obj].strong = @ + 1]
             /\ (pc[t] = "idle" /\ pc'[t] = "idle" /\ loc'[t].op = "release"
                   /\ held'[t] # held[t] /\ (InMap(loc'[t].obj) \/ InVec(loc'[t].obj))) =>
                    /\ CONTEXT' = CONTEXT
                    /\ heap' = [heap EXCEPT ![loc'[t].obj].strong = @ - 1]]_vars

\* A thread resolved a registered object and has dropped the reference; the
\* object is still registered.
C8_Witness ==
    \E t \in Threads :
        /\ pc[t] = "idle"
        /\ loc[t].op = "release"
        /\ loc[t].why \in {"nd_from_handle", "d_from_handle"}
        /\ InMap(loc[t].obj) \/ InVec(loc[t].obj)
        /\ held[t][loc[t].obj] = 0
        /\ heap[loc[t].obj].strong = 1

\* A handle register_object has returned and no drop_handle has removed.
LiveHandle(cat, h) ==
    /\ \E i \in 1..Len(hist.returned) : hist.returned[i].cat = cat /\ hist.returned[i].h = h
    /\ ~Dropped(cat, h)

\* C9: every from_handle of a live handle h succeeds; the object it returns
\* has its handle field equal to h; and all callers resolving h get the same
\* object.
C9_ConcurrentResolve ==
    /\ [](\A t \in Threads :
            Resolved(t) =>
                /\ heap[loc[t].obj].handle = loc[t].h
                /\ \A u \in Threads :
                       (Resolved(u) /\ loc[u].cat = loc[t].cat /\ loc[u].h = loc[t].h)
                           => loc[u].obj = loc[t].obj)
    /\ [][\A t \in Threads :
             (pc[t] = "nd_from_get" /\ pc'[t] # pc[t] /\ LiveHandle(loc[t].cat, loc[t].h))
                 => pc'[t] = "idle"]_vars

\* Two threads hold the object of the same handle, each by its own resolve.
C9_Witness ==
    \E t, u \in Threads :
        /\ t # u
        /\ Resolved(t) /\ Resolved(u)
        /\ loc[t].cat = loc[u].cat /\ loc[t].h = loc[u].h
        /\ held[t][loc[t].obj] > 0 /\ held[u][loc[t].obj] > 0

\* C10: from the return of a create until the destroy of what it returned is
\* called, the object is in the registry: a returned non-dispatchable handle
\* is a key of its category's map, under which its live object is stored, and
\* a returned dispatchable object is a live entry of its kind's Vec.
C10_RegisteredOnReturn ==
    /\ \A i \in 1..Len(hist.returned) :
          LET r == hist.returned[i]
          IN ~Dropped(r.cat, r.h) =>
                 /\ MapHas(CONTEXT[r.cat], r.h)
                 /\ CONTEXT[r.cat][r.h] = r.obj
                 /\ Live(heap, r.obj)
    /\ \A o \in hist.created \ hist.destroyed :
          /\ VecHas(CONTEXT[get_vec(heap[o].kind)], o)
          /\ Live(heap, o)

\* A fence made by one thread has been resolved by another, with a device and
\* its queue registered.
C10_Witness ==
    \E t \in Threads, i \in 1..Len(hist.returned) :
        /\ hist.returned[i].cat = "fences"
        /\ hist.returned[i].t # t
        /\ Resolved(t)
        /\ loc[t].cat = "fences" /\ loc[t].h = hist.returned[i].h
        /\ CONTEXT.queues # <<>> /\ CONTEXT.logical_devices # <<>>

\* C11: destroying the null handle does nothing: drop_handle(VK_NULL_HANDLE)
\* removes no entry and leaves every collection of the registry and every
\* object as they were, and the dispatchable from_handle of the null handle
\* returns no object and changes no reference count.
C11_NullHandleNoOp ==
    [][\A t \in Threads :
          /\ (pc[t] = "nd_drop_remove" /\ pc'[t] = "idle" /\ loc[t].h = VK_NULL_HANDLE) =>
                 CONTEXT' = CONTEXT /\ heap' = heap
          /\ (pc[t] = "idle" /\ loc'[t] # loc[t] /\ loc'[t].op = "d_from_handle"
                /\ pc'[t] = "idle") =>
                 /\ loc'[t].obj = NoObj
                 /\ CONTEXT' = CONTEXT /\ heap' = heap /\ held' = held]_vars

\* With an object registered, one thread has dropped the null handle and
\* another has decoded the null dispatchable handle.
C11_Witness ==
    \E t, u \in Threads :
        /\ pc[t] = "idle" /\ loc[t].op = "nd_drop_handle" /\ loc[t].h = VK_NULL_HANDLE
        /\ CONTEXT[loc[t].cat] # EmptyMap
        /\ pc[u] = "idle" /\ loc[u].op = "d_from_handle" /\ loc[u].obj = NoObj

\* C12: of the destroys of one handle at most one removes the registry entry:
\* an object is removed from its Vec at most once and a key from its map at
\* most once, and every other unregister finds no entry (the registry is left
\* as it was; the dispatchable one panics on its unwrap).
C12_AtMostOneRemoval ==
    /\ [](/\ \A o \in Obj : hist.removals[o] <= 1
          /\ \A d1, d2 \in hist.dropped :
                 (d1.cat = d2.cat /\ d1.h = d2.h /\ d1.obj # NoObj /\ d2.obj # NoObj)
                     => d1 = d2)
    /\ [][\A t \in Threads :
             /\ (pc[t] = "d_unregister" /\ pc'[t] # pc[t]
                   /\ hist.removals[loc[t].obj] > 0) =>
                    CONTEXT' = CONTEXT /\ pc'[t] = "d_drop_unwind"
             /\ (pc[t] = "nd_drop_remove" /\ pc'[t] # pc[t]
                   /\ Dropped(loc[t].cat, loc[t].h)) =>
                    CONTEXT' = CONTEXT /\ heap' = heap]_vars

\* Two threads are destroying the same object: one has removed the entry and
\* is still in its drop_handle, the other has found no entry.
C12_Witness ==
    \E t, u \in Threads :
        /\ t # u
        /\ pc[t] = "d_drop_assert"
        /\ pc[u] = "panicked" /\ loc[u].op = "d_drop_handle" /\ loc[u].why = "unwrap"
        /\ loc[u].obj = loc[t].obj
        /\ hist.removals[loc[t].obj] = 1

\* The signal()/reset() calls made on fence f so far, and the last of them.
FenceCalls(f) == hist.fence_calls[f]

\* C13: a fence is signaled exactly when the last signal()/reset() call on it
\* was signal(), and, no call having been made, exactly when
\* VK_FENCE_CREATE_SIGNALED_BIT was set in its creation flags.
C13_FenceStateMachine ==
    \A f \in Obj :
        (IsFence(f) /\ Live(heap, f)) =>
            heap[f].signaled =
                IF FenceCalls(f) = <<>> THEN heap[f].flags
                ELSE FenceCalls(f)[Len(FenceCalls(f))] = "signal"

\* A fence created signaled has been reset twice: right after its creation,
\* and again by a reset_fences that has returned.
C13_Witness ==
    \E f \in Obj, u \in Threads :
        /\ IsFence(f) /\ Live(heap, f)
        /\ heap[f].flags
        /\ ~heap[f].signaled
        /\ FenceCalls(f) = <<"reset", "reset">>
        /\ loc[u].op = "reset_fences" /\ pc[u] = "idle" /\ loc[u].fences = <<f>>

\* C14: reset_fences on a device skips every fence of the list that another
\* device owns, leaving its signaled state as it was, and leaves every fence
\* the device owns unsignaled.
C14_ResetSkipsForeignFences ==
    [][\A t \in Threads :
          (pc[t] = "reset_locked" /\ loc'[t].i = loc[t].i + 1) =>
              LET fence == loc[t].fences[loc[t].i]
              IN IF heap[fence].logical_device = loc[t].dev
                 THEN ~heap'[fence].signaled
                 ELSE heap'[fence].signaled = heap[fence].signaled]_vars

\* C15: a wait_for_fences on fences the device owns that returns while one of
\* them is unsignaled reports a timeout, and one that returns with all of them
\* signaled reports success.
C15_WaitReportsExpiry ==
    [][\A t \in Threads :
          (pc[t] = "wait_loop" /\ pc'[t] = "idle") =>
              LET owned == {j \in 1..Len(loc[t].fences) :
                               heap[loc[t].fences[j]].logical_device = loc[t].dev}
              IN owned # {} =>
                     IF \E j \in owned : ~heap[loc[t].fences[j]].signaled
                     THEN loc'[t].ret = "timeout"
                     ELSE loc'[t].ret = "success"]_vars

\* Thread t's last call was PhysicalDevice::get and it has returned.
GotPhysicalDevice(t) == pc[t] = "idle" /\ loc[t].op = "physical_device_get"

\* C16: physical_devices never holds more than physical_device_count() = 1
\* entry; a get returns the registered entry, and with an entry registered it
\* makes no object and leaves the registry as it was; two gets return different
\* objects only when one of them was unregistered in between.
C16_PhysicalDeviceCached ==
    /\ [](/\ Len(CONTEXT.physical_devices) <= physical_device_count
          /\ \A t, u \in Threads :
                (GotPhysicalDevice(t) /\ GotPhysicalDevice(u) /\ loc[t].obj # loc[u].obj)
                    => (hist.removals[loc[t].obj] + hist.removals[loc[u].obj] > 0))
    /\ [][\A t \in Threads :
             (pc[t] = "pd_get" /\ pc'[t] = "idle") =>
                 /\ loc'[t].obj = CONTEXT'.physical_devices[1]
                 /\ held'[t][loc'[t].obj] = held[t][loc'[t].obj] + 1
                 /\ CONTEXT.physical_devices # <<>> =>
                        /\ CONTEXT' = CONTEXT
                        /\ \A o \in Obj : heap'[o].state = heap[o].state]_vars

\* Two threads have each called get and hold the one registered
\* PhysicalDevice, on which a device was made in between.
C16_Witness ==
    \E t, u \in Threads :
        /\ t # u
        /\ GotPhysicalDevice(t) /\ GotPhysicalDevice(u)
        /\ loc[t].obj = loc[u].obj
        /\ held[t][loc[t].obj] > 0 /\ held[u][loc[t].obj] > 0
        /\ CONTEXT.physical_devices = <<loc[t].obj>>
        /\ CONTEXT.logical_devices # <<>>

\* Thread t's last call was queue() on a device and it has returned.
GotQueue(t) == pc[t] = "idle" /\ loc[t].op = "queue"

\* C17: queue() on a device returns the Queue that LogicalDevice::new made and
\* registered for that device, so any two calls on one device return the same
\* object.
C17_QueueIdentity ==
    \A t \in Threads :
        GotQueue(t) =>
            /\ <<loc[t].dev, loc[t].obj>> \in hist.queues
            /\ heap[loc[t].obj].kind = "Queue" /\ Live(heap, loc[t].obj)
            /\ loc[t].obj \in hist.created
            /\ loc[t].obj \notin hist.destroyed => VecHas(CONTEXT.queues, loc[t].obj)
            /\ \A u \in Threads :
                   (GotQueue(u) /\ loc[u].dev = loc[t].dev) => loc[u].obj = loc[t].obj

\* A thread holds two Arcs of the Queue of a device it made, from two
\* queue() calls on that device.
C17_Witness ==
    \E t \in Threads :
        /\ GotQueue(t)
        /\ held[t][loc[t].obj] = 2
        /\ held[t][loc[t].dev] > 0
        /\ heap[loc[t].dev].queue = loc[t].obj
        /\ VecHas(CONTEXT.queues, loc[t].obj)

\* C18: no handle returned by register_object is the null handle, the
\* registrations at which ID_COUNTER is at its maximum and wraps included.
C18_HandleNonZero ==
    \A i \in 1..Len(hist.returned) : hist.returned[i].h # VK_NULL_HANDLE

\* The entries of the registry that are allocation o, over all collections.
Entries(o) ==
    Sum([v \in Vecs |-> Cardinality({i \in 1..Len(CONTEXT[v]) : CONTEXT[v][i] = o})], Vecs)
    + Sum([c \in Cats |-> Cardinality({k \in DOMAIN CONTEXT[c] : CONTEXT[c][k] = o})], Cats)

\* C19: no object has more than one entry in the registry, and an object that
\* was created and whose destroy has not been called has exactly one: in the
\* Vec of its kind if it is dispatchable, in the map of its category under its
\* handle otherwise.
C19_RegisteredExactlyOnce ==
    /\ \A o \in Obj : Entries(o) <= 1
    /\ \A o \in hist.created \ hist.destroyed :
          Entries(o) = 1 /\ VecHas(CONTEXT[get_vec(heap[o].kind)], o)
    /\ \A i \in 1..Len(hist.returned) :
          LET r == hist.returned[i]
          IN ~Dropped(r.cat, r.h) =>
                 Entries(r.obj) = 1 /\ MapHas(CONTEXT[r.cat], r.h)
                     /\ CONTEXT[r.cat][r.h] = r.obj

\* A physical device, a device, its queue and a fence are registered, and a
\* second PhysicalDevice::get by another thread has returned.
C19_Witness ==
    \E t \in Threads :
        /\ GotPhysicalDevice(t)
        /\ heap[loc[t].obj].strong > 4
        /\ CONTEXT.queues # <<>> /\ CONTEXT.logical_devices # <<>>
        /\ \E i \in 1..Len(hist.returned) :
               hist.returned[i].cat = "fences" /\ hist.returned[i].t # t

\* C20: no thread takes the Mutex of an object while it holds the CONTEXT
\* lock, as reader or as writer.
C20_LockOrdering ==
    [][\A t \in Threads, o \in Obj :
          (mutex[o] # t /\ mutex'[o] = t) =>
              (CONTEXT_lock.writer # t /\ t \notin CONTEXT_lock.readers)]_vars

\* C21: a resolve reads the registry only while it is a reader of the CONTEXT
\* lock, and several can be readers at once; the registry changes only in a
\* step of the thread that is the writer, with no reader inside; so no change
\* of the registry is concurrent with a resolve or with another change.
C21_LockDiscipline ==
    /\ [](/\ CONTEXT_lock.writer # NoThread => CONTEXT_lock.readers = {}
          /\ \A t \in Threads : pc[t] = "nd_from_get" <=> t \in CONTEXT_lock.readers)
    /\ [][CONTEXT' # CONTEXT =>
             /\ CONTEXT_lock.writer # NoThread
             /\ CONTEXT_lock.readers = {}
             /\ pc'[CONTEXT_lock.writer] # pc[CONTEXT_lock.writer]
             /\ \A t \in Threads \ {CONTEXT_lock.writer} : pc'[t] = pc[t]]_vars

\* With an object registered, every thread is inside the read lock resolving
\* it.
C21_Witness ==
    /\ CONTEXT_lock.readers = Threads
    /\ \A t \in Threads : MapHas(CONTEXT[loc[t].cat], loc[t].h)

\* Thread t is inside a call: it has neither returned nor aborted.
InCall(t) == pc[t] \notin {"idle", "panicked", "undefined"}

C23_HandleKeyAgreement ==
    /\ [](CONTEXT_lock.writer = NoThread =>
             \A c \in Cats : \A k \in DOMAIN CONTEXT[c] : heap[CONTEXT[c][k]].handle = k)
    /\ [][\A t \in Threads :
             (pc[t] = "nd_from_get" /\ pc'[t] = "idle") =>
                 /\ heap[loc'[t].obj].handle = loc[t].h
                 /\ mutex[loc'[t].obj] = NoThread]_vars

\* A register_object is between its insert and its set_handle (the entry's
\* object still carries the null handle) while another thread holds an object
\* it resolved earlier.
C23_Witness ==
    \E t, u \in Threads :
        /\ pc[t] \in {"nd_reg_lock_object", "nd_reg_set_handle"}
        /\ MapHas(CONTEXT[loc[t].cat], loc[t].h)
        /\ heap[CONTEXT[loc[t].cat][loc[t].h]].handle # loc[t].h
        /\ u # t /\ Resolved(u) /\ held[u][loc[u].obj] > 0

\* C24: the handle field of a non-dispatchable object is written once.  The
\* constructor builds the object with the null handle; the one step that
\* changes the field is register_object's set_handle, which writes the
\* identity the object was inserted under; the object of every returned
\* handle carries that handle for as long as it lives.
C24_HandleSetOnce ==
    /\ [][\A o \in Obj :
             /\ (heap[o].state = "unalloc" /\ NonDispatchableObj(o)') =>
                    heap'[o].handle = VK_NULL_HANDLE
             /\ heap'[o].handle # heap[o].handle =>
                    \E t \in Threads :
                        /\ pc[t] = "nd_reg_set_handle" /\ pc'[t] = "idle"
                        /\ loc[t].obj = o
                        /\ heap[o].handle = VK_NULL_HANDLE
                        /\ heap'[o].handle = loc[t].h
                        /\ CONTEXT[loc[t].cat][loc[t].h] = o]_vars
    /\ [](\A i \in 1..Len(hist.returned) :
             Live(heap, hist.returned[i].obj) =>
                 heap[hist.returned[i].obj].handle = hist.returned[i].h)

\* A fence that was resolved and then signaled or reset carries the handle
\* it is registered under.
C24_Witness ==
    \E f \in Obj :
        /\ IsFence(f) /\ Live(heap, f)
        /\ FenceCalls(f) # <<>>
        /\ heap[f].handle # VK_NULL_HANDLE
        /\ MapHas(CONTEXT.fences, heap[f].handle)
        /\ CONTEXT.fences[heap[f].handle] = f

\* C25: an unregister that finds no entry aborts: a drop_handle of a non-null
\* handle returns only when it has removed an entry, and an unregister_object
\* of an object in no entry panics.
C25_MissingEntryFailsFast ==
    /\ [](\A d \in hist.dropped : d.h # VK_NULL_HANDLE => d.obj # NoObj)
    /\ [][\A t \in Threads :
             (pc[t] = "d_unregister" /\ pc'[t] # pc[t]
                /\ ~VecHas(CONTEXT[get_vec(heap[loc[t].obj].kind)], loc[t].obj)) =>
                 pc'[t] = "d_drop_unwind" /\ loc'[t].why = "unwrap"]_vars

\* C26: reference-count accounting of the dispatchable protocol.  The handle
\* written by set_ffi_handle is the object's address and is no owner: the
\* encoded Arc's count is given up, and the strong count of an encoded live
\* object is the number of Arcs inside the runtime (a registry entry among
\* them keeps it alive).  A from_handle of the handle of a live object gives
\* the caller one Arc of that same object and raises the count by one, and
\* the drop of that Arc lowers it by one.
C26_CountAccounting ==
    /\ [](\A o \in ffi : Live(heap, o) => heap[o].strong = Owners(o))
    /\ [][\A t \in Threads : \A o \in Obj :
             /\ (loc'[t].op = "d_set_ffi_handle" /\ loc'[t].obj = o /\ held'[t][o] < held[t][o]) =>
                    /\ o \in ffi'
                    /\ heap[o].strong > 1 => heap'[o].strong = heap[o].strong - 1
                    /\ VecHas(CONTEXT[get_vec(heap[o].kind)], o) =>
                           Live(heap', o) /\ heap'[o].strong = Owners(o)'
             /\ (pc[t] = "d_from_increment" /\ pc'[t] # pc[t] /\ loc[t].obj = o /\ Live(heap, o)) =>
                    /\ o \in ffi
                    /\ heap' = [heap EXCEPT ![o].strong = @ + 1]
                    /\ held' = [held EXCEPT ![t][o] = @ + 1]
                    /\ pc'[t] = "idle"
             /\ (loc'[t].op = "release" /\ loc'[t].why = "d_from_handle" /\ loc'[t].obj = o
                   /\ held'[t][o] < held[t][o] /\ heap[o].strong > 1) =>
                    heap' = [heap EXCEPT ![o].strong = @ - 1]]_vars

\* An encoded instance kept by its registry entry alone, decoded once (count 2)
\* and the decoded Arc dropped again (count 1).
C26_Witness ==
    \E t \in Threads : \E o \in ffi :
        /\ Live(heap, o) /\ VecHas(CONTEXT[get_vec(heap[o].kind)], o)
        /\ pc[t] = "idle" /\ loc[t].op = "release" /\ loc[t].why = "d_from_handle" /\ loc[t].obj = o
        /\ heap[o].strong = 1 /\ \A u \in Threads : held[u][o] = 0

\* C27: the signaled state of a fence changes only in a signal() or reset()
\* on that fence; every step of wait_for_fences (entry, each iteration, the
\* return) leaves the signaled state of every fence and every collection of
\* the registry as they were.
C27_SignaledFrame ==
    [][/\ \A f \in Obj :
            (Live(heap, f) /\ IsFence(f) /\ Live(heap', f) /\ heap'[f].signaled # heap[f].signaled) =>
                /\ Len(hist'.fence_calls[f]) = Len(hist.fence_calls[f]) + 1
                /\ heap'[f].signaled = (hist'.fence_calls[f][Len(hist'.fence_calls[f])] = "signal")
       /\ \A t \in Threads :
            ((pc[t] \in {"wait_loop", "wait_locked"} \/ pc'[t] = "wait_loop")
               /\ (pc'[t] # pc[t] \/ loc'[t] # loc[t])) =>
                /\ CONTEXT' = CONTEXT
                /\ hist'.fence_calls = hist.fence_calls
                /\ \A f \in Obj : (Live(heap, f) /\ IsFence(f)) =>
                       /\ heap'[f].signaled = heap[f].signaled
                       /\ InMap(f) => Live(heap', f)]_vars

\* A wait over a list naming a signaled fence twice has returned; the fence
\* is registered and signaled as it was created, and no signal() or reset()
\* ran on it.
C27_Witness ==
    \E t \in Threads :
        /\ pc[t] = "idle" /\ loc[t].op = "wait_for_fences" /\ loc[t].ret = "unit"
        /\ Len(loc[t].fences) = 2
        /\ LET f == loc[t].fences[1]
           IN /\ Live(heap, f) /\ heap[f].signaled /\ heap[f].flags
              /\ heap[f].logical_device = loc[t].dev
              /\ FenceCalls(f) = <<>>
              /\ InMap(f)

\* C28: the identities of all categories come from the one ID_COUNTER: no
\* handle returned for an object of one category is returned for an object of
\* another, the maps of different categories share no key, and every key of a
\* category's map was drawn by a registration into that category, whose
\* object (of that category's type) is stored under it.
C28_CategoriesDisjoint ==
    /\ \A i, j \in 1..Len(hist.returned) :
          hist.returned[i].cat # hist.returned[j].cat => hist.returned[i].h # hist.returned[j].h
    /\ \A c, d \in Cats : c # d => DOMAIN CONTEXT[c] \cap DOMAIN CONTEXT[d] = {}
    /\ \A c \in Cats : \A k \in DOMAIN CONTEXT[c] :
          /\ \/ \E i \in 1..Len(hist.returned) :
                    hist.returned[i].cat = c /\ hist.returned[i].h = k
             \/ \E t \in Threads : /\ pc[t] \in {"nd_reg_lock_object", "nd_reg_set_handle"}
                                   /\ loc[t].cat = c /\ loc[t].h = k
          /\ heap[CONTEXT[c][k]].kind = (IF c = "fences" THEN "Fence" ELSE "Semaphore")

\* A fence and a semaphore are registered side by side, each under the handle
\* its creation returned.
C28_Witness ==
    \E i, j \in 1..Len(hist.returned) :
        /\ hist.returned[i].cat = "fences" /\ hist.returned[j].cat = "semaphores"
        /\ MapHas(CONTEXT.fences, hist.returned[i].h)
        /\ MapHas(CONTEXT.semaphores, hist.returned[j].h)
        /\ CONTEXT.fences[hist.returned[i].h] = hist.returned[i].obj
        /\ CONTEXT.semaphores[hist.returned[j].h] = hist.returned[j].obj

\* The live fences created on device d.
FencesOf(d) == {f \in Obj : Live(heap, f) /\ IsFence(f) /\ heap[f].logical_device = d}

\* C29: a fence owns an Arc of its LogicalDevice: the device of a live fence
\* is live; the final-reference assertion of a drop_handle on a device with a
\* live fence (registered, or held by a caller) fails; and the assertion
\* passes on a device only when no fence of it is left and no Fence::create on
\* it is under way.
C29_FenceKeepsDevice ==
    /\ [](\A f \in Obj : (Live(heap, f) /\ IsFence(f)) =>
              /\ Live(heap, heap[f].logical_device)
              /\ heap[heap[f].logical_device].strong >= Cardinality(FencesOf(heap[f].logical_device)))
    /\ [][\A t \in Threads :
             (pc[t] = "d_drop_assert" /\ pc'[t] # pc[t] /\ heap[loc[t].obj].kind = "LogicalDevice") =>
                 IF FencesOf(loc[t].obj) # {}
                 THEN pc'[t] = "d_drop_unwind" /\ loc'[t].why = "assert"
                      /\ heap' = heap /\ Live(heap, loc[t].obj)
                 ELSE pc'[t] = "d_drop_self" =>
                          \A u \in Threads : ~(pc[u] = "nd_reg_insert" /\ loc[u].dev = loc[t].obj)]_vars

\* A drop_handle on a device has failed its assertion with one Arc of the
\* device besides its own left, that of a registered fence.
C29_Witness ==
    \E t \in Threads :
        /\ pc[t] = "d_drop_unwind" /\ loc[t].why = "assert"
        /\ heap[loc[t].obj].kind = "LogicalDevice"
        /\ heap[loc[t].obj].strong = 2
        /\ \E f \in FencesOf(loc[t].obj) : InMap(f)

\* C30: drop_handle removes the entry before it makes the final-reference
\* check: the step that leads to the assertion takes one entry, the object's,
\* out of its Vec, and while a drop_handle is at the assertion, or has failed
\* it, its object is in no entry of the Vec it was in before the call.
C30_RemovedBeforeAssertion ==
    /\ [](\A t \in Threads :
              (pc[t] = "d_drop_assert"
                 \/ (pc[t] \in {"d_drop_unwind", "panicked"} /\ loc[t].op = "d_drop_handle"
                       /\ loc[t].why = "assert")) =>
                  /\ hist.removals[loc[t].obj] >= 1
                  /\ \A v \in Vecs : ~VecHas(CONTEXT[v], loc[t].obj))
    /\ [][\A t \in Threads :
             (pc[t] = "d_unregister" /\ pc'[t] = "d_drop_assert") =>
                 LET vec == get_vec(heap[loc[t].obj].kind)
                 IN /\ VecHas(CONTEXT[vec], loc[t].obj)
                    /\ Len(CONTEXT'[vec]) = Len(CONTEXT[vec]) - 1
                    /\ ~VecHas(CONTEXT'[vec], loc[t].obj)]_vars

\* A drop_handle has panicked in the assertion: its object is still alive
\* (another Arc exists), was created and registered, and is in no Vec.
C30_Witness ==
    \E t \in Threads :
        /\ pc[t] = "panicked" /\ loc[t].op = "d_drop_handle" /\ loc[t].why = "assert"
        /\ loc[t].obj \in hist.created
        /\ Live(heap, loc[t].obj)
        /\ \A v \in Vecs : ~VecHas(CONTEXT[v], loc[t].obj)

\* C31: a drop_handle on a LogicalDevice takes out of the registry the
\* device's own entry and nothing else: every step of it leaves the instances,
\* physical_devices and queues Vecs and both maps as they were, and after the
\* device is freed the Queue that LogicalDevice::new registered for it (unless
\* itself destroyed) is still an entry of queues, alive, and owned by that
\* entry and by the Arcs callers took with queue() or from_handle alone.
C31_DeviceDestroyFrame ==
    /\ [][\A t \in Threads :
             (pc[t] \in {"d_unregister", "d_drop_assert", "d_drop_self", "d_drop_unwind"}
                /\ pc'[t] # pc[t] /\ heap[loc[t].obj].kind = "LogicalDevice") =>
                 /\ \A v \in Vecs \ {"logical_devices"} : CONTEXT'[v] = CONTEXT[v]
                 /\ \A c \in Cats : CONTEXT'[c] = CONTEXT[c]
                 /\ CONTEXT'.logical_devices =
                        IF pc[t] = "d_unregister"
                        THEN SelectSeq(CONTEXT.logical_devices, LAMBDA x : x # loc[t].obj)
                        ELSE CONTEXT.logical_devices
                 /\ \A q \in Obj : VecHas(CONTEXT.queues, q) => Live(heap', q)]_vars
    /\ [](\A p \in hist.queues :
              (heap[p[1]].state = "freed" /\ p[2] \notin hist.destroyed) =>
                  /\ VecHas(CONTEXT.queues, p[2])
                  /\ Live(heap, p[2])
                  /\ heap[p[2]].strong = 1 + Sum([t \in Threads |-> held[t][p[2]]], Threads))

\* A device was destroyed and freed; its queue is an entry of queues with the
\* registry's Arc as its only owner, and its physical device is still cached.
C31_Witness ==
    \E p \in hist.queues :
        /\ p[1] \in hist.destroyed /\ heap[p[1]].state = "freed"
        /\ hist.removals[p[1]] = 1
        /\ VecHas(CONTEXT.queues, p[2]) /\ heap[p[2]].strong = 1
        /\ VecHas(CONTEXT.physical_devices, heap[p[2]].physical_device)
        /\ \A t \in Threads : pc[t] = "idle"

\* Thread t is inside wait_for_fences or reset_fences.
InLoop(t) == pc[t] \in {"wait_loop", "wait_locked", "reset_loop", "reset_locked"}

\* The fence Mutexes thread t holds.
LockedBy(t) == {o \in Obj : mutex[o] = t}

\* C32: wait_for_fences and reset_fences hold at most one fence lock at a
\* time, that of the fence of the current iteration, and none between two
\* iterations; a call over any list (a fence named twice, the fences of
\* another thread's list in the opposite order) is never left waiting with
\* every other call, and under fair scheduling it returns.
C32_OneFenceLockAtATime ==
    /\ [](\A t \in Threads :
              InLoop(t) =>
                  IF pc[t] \in {"wait_locked", "reset_locked"}
                  THEN LockedBy(t) = {loc[t].fences[loc[t].i]}
                  ELSE LockedBy(t) = {})
    /\ []((\E t \in Threads : InLoop(t)) => \E t \in Threads : InLoop(t) /\ ENABLED LoopContinue(t))
    /\ \A t \in Threads : InLoop(t) ~> (pc[t] = "idle" /\ loc[t].ret = "unit")

\* Two calls over the same two fences in opposite orders have crossed: each
\* holds, in its second iteration, the lock the other held in its first.
C32_Witness ==
    \E t, u \in Threads :
        /\ t # u
        /\ loc[t].fences = <<6, 7>> /\ loc[u].fences = <<7, 6>>
        /\ pc[t] \in {"wait_locked", "reset_locked"} /\ loc[t].i = 2
        /\ pc[u] \in {"wait_locked", "reset_locked"} /\ loc[u].i = 2
        /\ mutex[7] = t /\ mutex[6] = u

\* A call over a list that names one fence twice has returned.
C32_SameFenceTwice ==
    \E t \in Threads :
        /\ pc[t] = "idle" /\ loc[t].ret = "unit"
        /\ Len(loc[t].fences) = 2 /\ loc[t].fences[1] = loc[t].fences[2]

====
